---- MODULE Spec2Model ----
(***************************************************************************)
(* Model of src/src/vcf/vcf_to_fasta.py: the VCFtoFASTAPipeline class.     *)
(*                                                                         *)
(* A text file is a sequence of lines, a line a sequence of characters     *)
(* (without its terminator, which strip() removes like any other           *)
(* whitespace).  The characters are ">" (header marker), "A" (a residue)   *)
(* and " " (whitespace).                                                   *)
(***************************************************************************)
EXTENDS Integers, Sequences, FiniteSets, TLC

VARIABLES
    fastaExists,   \* the reference path exists
    vcfExists,     \* the variant path exists
    vcfGz,         \* str(vcf_path).endswith('.gz')
    fastaContent,  \* lines of the reference file
    fai,           \* fasta_path + '.fai'  : "absent" | "complete"
    gz,            \* vcf_path + '.gz'     : "absent" | "partial" | "complete"
    tbi,           \* compressed_vcf + '.tbi' : "absent" | "complete"
    out,           \* output_path: Absent or File(lines)
    atStart,       \* <<fai, gz, tbi, out>> when the pipeline was constructed
    pc,            \* position of the controller
    runs,          \* number of pipelines constructed so far
    logged,        \* entries this pipeline appended to its log file
    spawned,       \* external commands spawned by this pipeline, in order
    prior,         \* external commands spawned by earlier pipelines
    raised,        \* the error surfaced to the caller, or NoError
    returned,      \* the value run() returned, or NoValue
    verdict,       \* the value validate_output() returned, or NoValue
    emitted,       \* what bcftools consensus wrote to stdout in this run
    toolsPresent,  \* the tools the dependency probes of this run found
    outIsVcf,      \* output_path and vcf_path name the same file
    compressedVcf, \* the path compress_and_index_vcf() returned, or NoValue
    doneRuns,      \* number of runs that returned
    statsFile,     \* input of a direct get_file_stats() call
    stats,         \* its result, or NoValue
    callArg,       \* input of a direct run_command() or count_vcf_variants() call
    callResult     \* its result, or NoValue

vars == <<fastaExists, vcfExists, vcfGz, fastaContent, fai, gz, tbi, out,
          atStart, pc, runs, logged, spawned, prior, raised, returned,
          verdict, emitted, toolsPresent, outIsVcf, compressedVcf, doneRuns,
          statsFile, stats, callArg, callResult>>

----------------------------------------------------------------------------
(* Bounds and input sets *)

MaxRuns == 2
StatMaxLines == 5
ValMaxLines == 2
CallMaxText == 2
CountMaxChars == 5

\* a path: whether a file is there, and its lines
Absent == [exists |-> FALSE, lines |-> <<>>]
File(lines) == [exists |-> TRUE, lines |-> lines]

\* an optional value: <<>> or <<v>>
NoValue == <<>>
Val(v) == <<v>>

\* the lines input files are built from
LineSamples ==
    { <<>>, <<">">>, <<"A">>, <<"A", "A">>, <<" ", ">">>, <<"A", " ">>, <<" ">>,
      <<"A", " ", "A">> }

RECURSIVE FilesUpTo(_)
FilesUpTo(n) ==
    IF n = 0 THEN { <<>> }
    ELSE LET shorter == FilesUpTo(n - 1)
         IN  shorter \cup { Append(f, l) : f \in { g \in shorter : Len(g) = n - 1 },
                                            l \in LineSamples }

\* file contents the pipeline runs are explored with
FileSamples ==
    { <<>>,
      << <<"A">> >>,
      << <<">">>, <<"A">> >>,
      << <<">">>, <<"A", "A">> >> }

\* stderr texts an external process may leave
StderrSamples == { <<>>, <<"e1">> }

----------------------------------------------------------------------------
(* Sequence Statistics Engine: get_file_stats *)

\* the characters str.strip() removes
IsSpace(c) == c \in {" ", "\n"}

RECURSIVE lstrip(_)
lstrip(line) ==
    IF line # <<>> /\ IsSpace(Head(line)) THEN lstrip(Tail(line)) ELSE line

RECURSIVE rstrip(_)
rstrip(line) ==
    IF line # <<>> /\ IsSpace(line[Len(line)])
    THEN rstrip(SubSeq(line, 1, Len(line) - 1))
    ELSE line

\* str.strip()
strip(line) == rstrip(lstrip(line))

\* str.startswith('>')
startswith_gt(line) == line # <<>> /\ Head(line) = ">"

\* len(''.join(current_seq))
RECURSIVE joined_len(_)
joined_len(current_seq) ==
    IF current_seq = <<>> THEN 0
    ELSE Len(Head(current_seq)) + joined_len(Tail(current_seq))

\* md5_hash.update(line.encode()): the digest is abstracted as the byte
\* stream it was fed, every raw line followed by its terminator
md5_update(md5, rawLine) == md5 \o rawLine \o <<"\n">>

\* the flush at end of stream (lines 180-182) without the test on
\* current_seq: a slip that drops the last record
final_flush_dropped(st) == st.total_length

\* lines 180-182
final_flush(st) ==
    IF st.current_seq # <<>>
    THEN st.total_length + joined_len(st.current_seq)
    ELSE st.total_length

\* one iteration of the loop at lines 169-178
stats_step(st, rawLine) ==
    LET line == strip(rawLine)
        md5  == md5_update(st.md5, rawLine)
    IN  IF startswith_gt(line)
        THEN [ num_sequences |-> st.num_sequences + 1,
               total_length  |-> IF st.current_seq # <<>>
                                 THEN st.total_length + joined_len(st.current_seq)
                                 ELSE st.total_length,
               current_seq   |-> <<>>,
               md5           |-> md5 ]
        ELSE [ st EXCEPT !.current_seq = Append(st.current_seq, line),
                         !.md5 = md5 ]

RECURSIVE stats_loop(_, _)
stats_loop(st, file) ==
    IF file = <<>> THEN st
    ELSE stats_loop(stats_step(st, Head(file)), Tail(file))

get_file_stats(file) ==
    LET st == stats_loop([ num_sequences |-> 0, total_length |-> 0,
                           current_seq |-> <<>>, md5 |-> <<>> ], file)
    IN  [ num_sequences |-> st.num_sequences,
          total_length  |-> final_flush(st),
          md5           |-> st.md5 ]

----------------------------------------------------------------------------
(* Log entries and errors *)

\* one self.log(message) call: the message's fixed part and its arguments
L(kind, text) == [kind |-> kind, text |-> text]

Err(type, text, cmd, stderr) ==
    [type |-> type, text |-> text, cmd |-> cmd, stderr |-> stderr]

NoError == Err("none", <<>>, <<>>, <<>>)

----------------------------------------------------------------------------
(* Validator: validate_output *)

\* Path.stat().st_size: every line and its terminator
RECURSIVE st_size(_)
st_size(file) ==
    IF file = <<>> THEN 0 ELSE Len(Head(file)) + 1 + st_size(Tail(file))

stats_log(st) ==
    << L("Number of sequences", <<ToString(st.num_sequences)>>),
       L("Total length", <<ToString(st.total_length)>>),
       L("MD5 checksum", st.md5) >>

\* lines 236-241
check1(input_stats, output_stats) ==
    input_stats.num_sequences = output_stats.num_sequences

\* lines 243-248
check2(input_stats, output_stats) ==
    input_stats.md5 # output_stats.md5

\* lines 250-255
check3(outFile) ==
    outFile.exists /\ st_size(outFile.lines) > 0

\* checks_passed with the third check left out of the conjunction
checks_passed_without3(c1, c2, c3) == c1 /\ c2

\* checks_passed after lines 234-255
checks_passed(c1, c2, c3) == c1 /\ c2 /\ c3

\* the whole of validate_output on a reference file and the file (or no
\* file) at output_path: the error raised if any, the value returned and
\* the entries logged
validate_output(inFile, outFile) ==
    LET input_stats == get_file_stats(inFile)
        head == << L("sep", <<>>), L("VALIDATION REPORT", <<>>), L("sep", <<>>),
                   L("Input FASTA statistics", <<>>) >>
                \o stats_log(input_stats)
                \o << L("Output FASTA statistics", <<>>) >>
    IN  IF ~outFile.exists
        THEN \* open(filepath, 'r') at line 167 raises
             [ raised  |-> Err("FileNotFoundError", <<"No such file", "output_path">>,
                               <<>>, <<>>),
               verdict |-> NoValue,
               report  |-> head ]
        ELSE LET output_stats == get_file_stats(outFile.lines)
                 c1 == check1(input_stats, output_stats)
                 c2 == check2(input_stats, output_stats)
                 c3 == check3(outFile)
                 passed == checks_passed(c1, c2, c3)
             IN  [ raised  |-> NoError,
                   verdict |-> Val(passed),
                   report  |->
                     head \o stats_log(output_stats)
                     \o << L("Validation checks", <<>>),
                           L("check1", IF c1 THEN <<"ok">> ELSE <<"WARNING">>),
                           L("check2", IF c2 THEN <<"ok">> ELSE <<"WARNING">>),
                           L("check3", IF c3 THEN <<"ok">> ELSE <<"ERROR">>),
                           L("Length change",
                             <<ToString(output_stats.total_length
                                        - input_stats.total_length)>>),
                           L("sep", <<>>),
                           L(IF passed THEN "VALIDATION PASSED"
                                       ELSE "VALIDATION FAILED", <<>>),
                           L("sep", <<>>) >> ]

----------------------------------------------------------------------------
(* External commands and their outcomes *)

required_tools == <<"bcftools", "samtools", "bgzip", "tabix">>

ProbeCmd(tool) == <<tool, "--version">>
FaidxCmd == <<"samtools", "faidx">>
BgzipCmd == <<"bgzip", "-c">>
TabixCmd == <<"tabix", "-p", "vcf">>
ViewCmd == <<"bcftools", "view", "-H">>
ConsensusCmd == <<"bcftools", "consensus">>

\* stdout texts of the indexing collaborators
StdoutSamples == { <<>>, <<"o1">> }

\* stdout of the listing collaborator, as characters
ListingSamples ==
    { <<>>,
      <<"v", "\n">>,
      <<"v", "\n", "\n", "v", "\n">>,
      <<"\n", "v", "\n">> }

\* what a process run through run_command may do
Outcomes == [ok : BOOLEAN, stdout : StdoutSamples, stderr : StderrSamples]

\* what a process whose stdout goes to a file may do
StreamOutcomes == [ok : BOOLEAN, stderr : StderrSamples]

\* what the variant-application collaborator may do: the lines it wrote to
\* its stdout before it exited
ConsensusOutcomes == [ok : BOOLEAN, written : FileSamples, stderr : StderrSamples]

\* str(e) of a subprocess.CalledProcessError
CalledProcessError(cmd, stderr) ==
    Err("CalledProcessError",
        <<"Command">> \o cmd \o <<"returned non-zero exit status">>,
        cmd, stderr)

----------------------------------------------------------------------------
(* __init__ *)

\* lines 36-40: the error the constructor raises, if any
init_check(fastaThere, vcfThere) ==
    IF ~fastaThere
    THEN Err("FileNotFoundError", <<"FASTA file not found">>, <<>>, <<>>)
    ELSE IF ~vcfThere
    THEN Err("FileNotFoundError", <<"VCF file not found">>, <<>>, <<>>)
    ELSE NoError

----------------------------------------------------------------------------
(* Command Executor: run_command *)

\* the entries run_command logs and the error it raises, for an outcome o
run_command(cmd, description, o) ==
    [ log    |-> << L("Running", <<description>>), L("Command", cmd) >>
                 \o IF o.ok
                    THEN (IF o.stdout # <<>> THEN << L("Output", o.stdout) >>
                                             ELSE <<>>)
                    ELSE << L("ERROR failed", <<description>>),
                            L("Error message", o.stderr) >>,
      raised |-> IF o.ok THEN NoError ELSE CalledProcessError(cmd, o.stderr),
      stdout |-> IF o.ok THEN o.stdout ELSE <<>> ]

----------------------------------------------------------------------------
(* check_dependencies *)

\* the loop at lines 77-86 over the tools not yet probed
RECURSIVE probe_loop(_, _, _)
probe_loop(tools, present, acc) ==
    IF tools = <<>> THEN acc
    ELSE LET tool == Head(tools)
         IN  probe_loop(Tail(tools), present,
                 IF tool \in present
                 THEN [ acc EXCEPT !.log = Append(@, L("found", <<tool>>)),
                                   !.probes = Append(@, ProbeCmd(tool)) ]
                 ELSE [ acc EXCEPT !.log = Append(@, L("NOT found", <<tool>>)),
                                   !.probes = Append(@, ProbeCmd(tool)),
                                   !.missing_tools = Append(@, tool) ])

\* the error raised at lines 88-92 names only the first missing tool
missing_error_first(missing_tools) ==
    IF missing_tools # <<>>
    THEN Err("RuntimeError", <<"Missing required tools", Head(missing_tools)>>,
             <<>>, <<>>)
    ELSE NoError

\* lines 88-92
missing_error(missing_tools) ==
    IF missing_tools # <<>>
    THEN Err("RuntimeError", <<"Missing required tools">> \o missing_tools,
             <<>>, <<>>)
    ELSE NoError

\* present: the tools whose '--version' probe exits zero
check_dependencies(present) ==
    LET r == probe_loop(required_tools, present,
                 [ log |-> << L("Checking dependencies", <<>>) >>,
                   probes |-> <<>>, missing_tools |-> <<>> ])
    IN  [ log     |-> r.log,
          spawned |-> r.probes,
          raised  |-> missing_error(r.missing_tools) ]

----------------------------------------------------------------------------
(* Artifact Indexer: index_fasta, compress_and_index_vcf *)

\* the test at line 98 replaced by one that never finds the index
fai_exists_never(faiState) == FALSE

\* fai_path.exists(), line 98
fai_exists(faiState) == faiState # "absent"

\* index_fasta running the indexing command a second time when it failed
index_fasta_retry(faiState, o) ==
    IF fai_exists(faiState)
    THEN [ log |-> << L("FASTA index already exists", <<>>) >>,
           spawned |-> <<>>, fai |-> faiState, raised |-> NoError ]
    ELSE LET r == run_command(FaidxCmd, "FASTA indexing", o)
         IN  [ log     |-> << L("Indexing FASTA file", <<>>) >> \o r.log,
               spawned |-> IF o.ok THEN << FaidxCmd >> ELSE << FaidxCmd, FaidxCmd >>,
               fai     |-> IF o.ok THEN "complete" ELSE faiState,
               raised  |-> r.raised ]

\* o: what 'samtools faidx' does if it is run.  On success the collaborator
\* leaves the '.fai' sibling.
index_fasta(faiState, o) ==
    IF fai_exists(faiState)
    THEN [ log |-> << L("FASTA index already exists", <<>>) >>,
           spawned |-> <<>>, fai |-> faiState, raised |-> NoError ]
    ELSE LET r == run_command(FaidxCmd, "FASTA indexing", o)
         IN  [ log     |-> << L("Indexing FASTA file", <<>>) >> \o r.log,
               spawned |-> << FaidxCmd >>,
               fai     |-> IF o.ok THEN "complete" ELSE faiState,
               raised  |-> r.raised ]

\* the test at line 116 replaced by one that never finds the file
compressed_exists_never(gzState) == FALSE

\* compressed_vcf.exists(), line 116: any file at the path counts
compressed_exists(gzState) == gzState # "absent"

\* lines 110-142.  ob: what 'bgzip -c' does if it is run.  open(.., 'wb')
\* creates the target before the process starts, so a failing process
\* leaves an empty or truncated file behind.
compress_vcf(isGz, gzState, ob) ==
    IF isGz
    THEN [ log |-> << L("VCF is already compressed", <<>>) >>,
           spawned |-> <<>>, gz |-> gzState, raised |-> NoError ]
    ELSE IF compressed_exists(gzState)
    THEN [ log |-> << L("Compressed VCF already exists", <<>>) >>,
           spawned |-> <<>>, gz |-> gzState, raised |-> NoError ]
    ELSE LET start == << L("Compressing VCF file", <<>>), L("Command", BgzipCmd) >>
         IN  IF ob.ok
             THEN [ log |-> start
                            \o (IF strip(ob.stderr) # <<>>
                                THEN << L("bgzip stderr", ob.stderr) >> ELSE <<>>)
                            \o << L("VCF compressed successfully", <<>>) >>,
                    spawned |-> << BgzipCmd >>,
                    gz |-> "complete", raised |-> NoError ]
             ELSE [ log |-> start
                            \o << L("ERROR: VCF compression failed", <<>>),
                                  L("Error message",
                                    IF ob.stderr # <<>> THEN ob.stderr
                                    ELSE <<"Unknown error">>) >>,
                    spawned |-> << BgzipCmd >>,
                    gz |-> "partial",
                    raised |-> CalledProcessError(BgzipCmd, ob.stderr) ]

\* the variant index neither looked for nor made
index_vcf_skipped(tbiState, ot) ==
    [ log |-> <<>>, spawned |-> <<>>, tbi |-> tbiState, raised |-> NoError ]

\* lines 144-153.  ot: what 'tabix' does if it is run.
index_vcf(tbiState, ot) ==
    IF tbiState # "absent"
    THEN [ log |-> << L("VCF index already exists", <<>>) >>,
           spawned |-> <<>>, tbi |-> tbiState, raised |-> NoError ]
    ELSE LET r == run_command(TabixCmd, "VCF indexing", ot)
         IN  [ log     |-> << L("Indexing VCF file", <<>>) >> \o r.log,
               spawned |-> << TabixCmd >>,
               tbi     |-> IF ot.ok THEN "complete" ELSE tbiState,
               raised  |-> r.raised ]

\* the value of compressed_vcf, lines 111 and 115
compressed_vcf(isGz) == IF isGz THEN "vcf_path" ELSE "vcf_path.gz"

\* path: the value returned at line 155
compress_and_index_vcf(isGz, gzState, tbiState, ob, ot) ==
    LET c == compress_vcf(isGz, gzState, ob)
    IN  IF c.raised # NoError
        THEN [ log |-> c.log, spawned |-> c.spawned, gz |-> c.gz,
               tbi |-> tbiState, raised |-> c.raised, path |-> NoValue ]
        ELSE LET i == index_vcf(tbiState, ot)
             IN  [ log |-> c.log \o i.log, spawned |-> c.spawned \o i.spawned,
                   gz |-> c.gz, tbi |-> i.tbi, raised |-> i.raised,
                   path |-> IF i.raised = NoError THEN Val(compressed_vcf(isGz))
                            ELSE NoValue ]

----------------------------------------------------------------------------
(* Variant Counter: count_vcf_variants *)

\* len(text.split('\n'))
split_len(text) == Cardinality({ i \in 1..Len(text) : text[i] = "\n" }) + 1

\* line 195
count_lines(stdout) ==
    IF strip(stdout) # <<>> THEN split_len(strip(stdout)) ELSE 0

\* ov: what 'bcftools view -H' does; its stderr is not captured
count_vcf_variants(ov) ==
    [ spawned |-> << ViewCmd >>,
      raised  |-> IF ov.ok THEN NoError ELSE CalledProcessError(ViewCmd, <<>>),
      count   |-> IF ov.ok THEN count_lines(ov.stdout) ELSE 0 ]

----------------------------------------------------------------------------
(* Consensus Generator: apply_variants *)

\* the output file opened for appending instead
open_a(outFile) == File(outFile.lines)

\* open(self.output_path, 'w'), line 201: the file is created or truncated
open_w(outFile) == File(<<>>)

\* oc: what 'bcftools consensus' does; its stdout goes straight into the
\* opened output file.
apply_variants(outFile, oc) ==
    [ log     |-> << L("Applying variants to reference", <<>>) >>
                  \o (IF oc.ok /\ oc.stderr # <<>>
                      THEN << L("bcftools stderr", oc.stderr) >> ELSE <<>>),
      spawned |-> << ConsensusCmd >>,
      out     |-> File(open_w(outFile).lines \o oc.written),
      raised  |-> IF oc.ok THEN NoError
                  ELSE CalledProcessError(ConsensusCmd, oc.stderr) ]

----------------------------------------------------------------------------
(* Pipeline Controller: run *)

\* lines 273-280
run_header ==
    << L("sep", <<>>), L("VCF to FASTA Pipeline", <<>>), L("sep", <<>>),
       L("Input FASTA", <<>>), L("Input VCF", <<>>), L("Output FASTA", <<>>),
       L("Log file", <<>>), L("sep", <<>>) >>

\* lines 306-310: what the except block logs for the error e
except_log(e) ==
    IF e = NoError THEN <<>>
    ELSE << L("sep", <<>>), L("ERROR: Pipeline failed!", <<>>), L("sep", <<>>),
            L("Exception", e.text) >>

\* a controller that carries on after an error
goto_swallow(next, e) == next

\* the try/except of run(): where control goes after a stage that raised e
goto(next, e) == IF e = NoError THEN next ELSE "Failed"

\* run() returning True whatever the validator said
run_result_true(validation_passed) == Val(TRUE)

\* line 304
run_result(validation_passed) == validation_passed

\* the state of the artifacts, recorded when a pipeline is constructed
Artifacts == <<fai, gz, tbi, out>>

Inputs == <<fastaExists, vcfExists, vcfGz, fastaContent, outIsVcf>>
Direct == <<statsFile, stats, callArg, callResult>>

\* a constructor that opens the output file for writing
Construct_truncating ==
    /\ pc \in {"Idle", "Rejected", "Done", "Failed"}
    /\ runs < MaxRuns
    /\ runs' = runs + 1
    /\ prior' = prior \o spawned
    /\ spawned' = <<>>
    /\ logged' = <<>>
    /\ returned' = NoValue
    /\ verdict' = NoValue
    /\ emitted' = NoValue
    /\ toolsPresent' = NoValue
    /\ compressedVcf' = NoValue
    /\ atStart' = Artifacts
    /\ raised' = init_check(fastaExists, vcfExists)
    /\ pc' = IF raised' = NoError THEN "Constructed" ELSE "Rejected"
    /\ out' = File(<<>>)
    /\ UNCHANGED <<Inputs, fai, gz, tbi, doneRuns, Direct>>

\* VCFtoFASTAPipeline(fasta_path, vcf_path, output_path, log_file)
Construct ==
    /\ pc \in {"Idle", "Rejected", "Done", "Failed"}
    /\ runs < MaxRuns
    /\ runs' = runs + 1
    /\ prior' = prior \o spawned
    /\ spawned' = <<>>
    /\ logged' = <<>>
    /\ returned' = NoValue
    /\ verdict' = NoValue
    /\ emitted' = NoValue
    /\ toolsPresent' = NoValue
    /\ compressedVcf' = NoValue
    /\ atStart' = Artifacts
    /\ raised' = init_check(fastaExists, vcfExists)
    /\ pc' = IF raised' = NoError THEN "Constructed" ELSE "Rejected"
    /\ UNCHANGED <<Inputs, fai, gz, tbi, out, doneRuns, Direct>>

\* run(), lines 272-280
RunBegin ==
    /\ pc = "Constructed"
    /\ logged' = logged \o run_header
    /\ pc' = "Start"
    /\ UNCHANGED <<Inputs, fai, gz, tbi, out, atStart, runs, spawned, prior,
                   raised, returned, verdict, emitted, toolsPresent, compressedVcf, doneRuns, Direct>>

\* run(), line 283
CheckDependencies ==
    /\ pc = "Start"
    /\ \E present \in SUBSET { required_tools[i] : i \in 1..Len(required_tools) } :
         LET r == check_dependencies(present)
         IN  /\ logged' = logged \o r.log \o except_log(r.raised)
             /\ spawned' = spawned \o r.spawned
             /\ raised' = r.raised
             /\ toolsPresent' = Val(present)
             /\ pc' = goto("DependencyCheck", r.raised)
    /\ UNCHANGED <<Inputs, fai, gz, tbi, out, atStart, runs, prior,
                   returned, verdict, emitted, compressedVcf, doneRuns, Direct>>

\* run(), line 286
IndexFasta ==
    /\ pc = "DependencyCheck"
    /\ \E o \in Outcomes :
         LET r == index_fasta(fai, o)
         IN  /\ logged' = logged \o r.log \o except_log(r.raised)
             /\ spawned' = spawned \o r.spawned
             /\ fai' = r.fai
             /\ raised' = r.raised
             /\ pc' = goto("ReferenceIndexed", r.raised)
    /\ UNCHANGED <<Inputs, gz, tbi, out, atStart, runs, prior,
                   returned, verdict, emitted, toolsPresent, compressedVcf, doneRuns, Direct>>

\* run(), line 289
CompressAndIndexVcf ==
    /\ pc = "ReferenceIndexed"
    /\ \E ob \in StreamOutcomes, ot \in Outcomes :
         LET r == compress_and_index_vcf(vcfGz, gz, tbi, ob, ot)
         IN  /\ logged' = logged \o r.log \o except_log(r.raised)
             /\ spawned' = spawned \o r.spawned
             /\ gz' = r.gz
             /\ tbi' = r.tbi
             /\ raised' = r.raised
             /\ compressedVcf' = r.path
             /\ pc' = goto("VariantIndexed", r.raised)
    /\ UNCHANGED <<Inputs, fai, out, atStart, runs, prior,
                   returned, verdict, emitted, toolsPresent, doneRuns, Direct>>

\* run(), lines 292-293
CountVariants ==
    /\ pc = "VariantIndexed"
    /\ \E ok \in BOOLEAN, stdout \in ListingSamples :
         LET r == count_vcf_variants([ok |-> ok, stdout |-> stdout])
         IN  /\ logged' = logged
                          \o (IF r.raised = NoError
                              THEN << L("Number of variants in VCF",
                                        <<ToString(r.count)>>) >>
                              ELSE <<>>)
                          \o except_log(r.raised)
             /\ spawned' = spawned \o r.spawned
             /\ raised' = r.raised
             /\ pc' = goto("VariantsCounted", r.raised)
    /\ UNCHANGED <<Inputs, fai, gz, tbi, out, atStart, runs, prior,
                   returned, verdict, emitted, toolsPresent, compressedVcf, doneRuns, Direct>>

\* run(), line 296
ApplyVariants ==
    /\ pc = "VariantsCounted"
    /\ \E oc \in ConsensusOutcomes :
         LET r == apply_variants(out, oc)
         IN  /\ logged' = logged \o r.log \o except_log(r.raised)
             /\ spawned' = spawned \o r.spawned
             /\ out' = r.out
             /\ emitted' = Val(oc.written)
             /\ raised' = r.raised
             /\ pc' = goto("ConsensusGenerated", r.raised)
    /\ UNCHANGED <<Inputs, fai, gz, tbi, atStart, runs, prior,
                   returned, verdict, toolsPresent, compressedVcf, doneRuns, Direct>>

\* run(), line 299
ValidateOutput ==
    /\ pc = "ConsensusGenerated"
    /\ LET r == validate_output(fastaContent, out)
       IN  /\ logged' = logged \o r.report \o except_log(r.raised)
           /\ verdict' = r.verdict
           /\ raised' = r.raised
           /\ pc' = goto("Validated", r.raised)
    /\ UNCHANGED <<Inputs, fai, gz, tbi, out, atStart, runs, spawned, prior,
                   returned, emitted, toolsPresent, compressedVcf, doneRuns, Direct>>

\* run(), lines 301-304
Complete ==
    /\ pc = "Validated"
    /\ logged' = logged \o << L("Pipeline completed successfully!", <<>>),
                              L("Output saved to", <<>>) >>
    /\ returned' = run_result(verdict)
    /\ pc' = "Done"
    /\ doneRuns' = doneRuns + 1
    /\ UNCHANGED <<Inputs, fai, gz, tbi, out, atStart, runs, spawned, prior,
                   raised, verdict, emitted, toolsPresent, compressedVcf, Direct>>

Init ==
    /\ fastaExists \in BOOLEAN
    /\ vcfExists \in BOOLEAN
    /\ vcfGz \in BOOLEAN
    /\ fastaContent \in (IF fastaExists THEN FileSamples ELSE { <<>> })
    /\ fai = "absent"
    /\ gz \in (IF vcfGz THEN {"absent"} ELSE {"absent", "complete"})
    /\ tbi = "absent"
    /\ out \in {Absent, File(<< <<">">>, <<"A">> >>)}
    /\ outIsVcf \in { b \in BOOLEAN : b => (out.exists = vcfExists) }
    /\ atStart = Artifacts
    /\ pc = "Idle"
    /\ runs = 0
    /\ logged = <<>>
    /\ spawned = <<>>
    /\ prior = <<>>
    /\ raised = NoError
    /\ returned = NoValue
    /\ verdict = NoValue
    /\ emitted = NoValue
    /\ toolsPresent = NoValue
    /\ compressedVcf = NoValue
    /\ doneRuns = 0
    /\ statsFile = <<>>
    /\ stats = NoValue
    /\ callArg = NoValue
    /\ callResult = NoValue

Next ==
    \/ Construct
    \/ RunBegin
    \/ CheckDependencies
    \/ IndexFasta
    \/ CompressAndIndexVcf
    \/ CountVariants
    \/ ApplyVariants
    \/ ValidateOutput
    \/ Complete

Spec == Init /\ [][Next]_vars

----------------------------------------------------------------------------
(* Direct calls of single methods *)

\* the state of a constructed pipeline that has run nothing
Fresh ==
    /\ fastaExists = TRUE
    /\ vcfExists = TRUE
    /\ vcfGz = FALSE
    /\ fai = "absent"
    /\ gz = "absent"
    /\ tbi = "absent"
    /\ atStart = Artifacts
    /\ runs = 1
    /\ logged = <<>>
    /\ spawned = <<>>
    /\ prior = <<>>
    /\ raised = NoError
    /\ returned = NoValue
    /\ verdict = NoValue
    /\ emitted = NoValue
    /\ toolsPresent = NoValue
    /\ outIsVcf = FALSE
    /\ compressedVcf = NoValue
    /\ doneRuns = 0
    /\ stats = NoValue

\* pipeline.get_file_stats(filepath)
GetFileStats ==
    /\ pc = "StatsCall"
    /\ stats' = Val(get_file_stats(statsFile))
    /\ pc' = "StatsDone"
    /\ UNCHANGED <<Inputs, fai, gz, tbi, out, atStart, runs, logged, spawned,
                   prior, raised, returned, verdict, emitted, toolsPresent,
                   compressedVcf, doneRuns, statsFile, callArg, callResult>>

InitStats ==
    /\ fastaContent = <<>>
    /\ out = Absent
    /\ Fresh
    /\ statsFile \in FilesUpTo(StatMaxLines)
    /\ callArg = NoValue
    /\ callResult = NoValue
    /\ pc = "StatsCall"

SpecStats == InitStats /\ [][GetFileStats]_vars

\* pipeline.validate_output()
ValidateCall ==
    /\ pc = "ValidateCall"
    /\ LET r == validate_output(fastaContent, out)
       IN  /\ logged' = logged \o r.report
           /\ verdict' = r.verdict
           /\ raised' = r.raised
    /\ pc' = "ValidateDone"
    /\ UNCHANGED <<Inputs, fai, gz, tbi, out, atStart, runs, spawned, prior,
                   returned, emitted, toolsPresent, compressedVcf, doneRuns, Direct>>

InitValidate ==
    /\ fastaContent \in FilesUpTo(ValMaxLines)
    /\ out \in {Absent} \cup { File(f) : f \in FilesUpTo(ValMaxLines) }
    /\ Fresh
    /\ statsFile = <<>>
    /\ callArg = NoValue
    /\ callResult = NoValue
    /\ pc = "ValidateCall"

SpecValidate == InitValidate /\ [][ValidateCall]_vars

\* the texts of at most n tokens
RECURSIVE TextsUpTo(_, _)
TextsUpTo(tokens, n) ==
    IF n = 0 THEN { <<>> }
    ELSE LET shorter == TextsUpTo(tokens, n - 1)
         IN  shorter \cup { Append(t, c) : t \in { u \in shorter : Len(u) = n - 1 },
                                            c \in tokens }

\* pipeline.run_command(cmd, description)
RunCommandCall ==
    /\ pc = "CommandCall"
    /\ LET a == callArg[1]
           r == run_command(a.cmd, a.description, a.o)
       IN  /\ logged' = logged \o r.log
           /\ raised' = r.raised
           /\ callResult' = IF r.raised = NoError THEN Val(r.stdout) ELSE NoValue
           /\ spawned' = Append(spawned, a.cmd)
    /\ pc' = "CommandDone"
    /\ UNCHANGED <<Inputs, fai, gz, tbi, out, atStart, runs, prior, returned,
                   verdict, emitted, toolsPresent, compressedVcf, doneRuns,
                   statsFile, stats, callArg>>

InitRunCommand ==
    /\ fastaContent = <<>>
    /\ out = Absent
    /\ Fresh
    /\ statsFile = <<>>
    /\ callArg \in { Val([cmd |-> c[1], description |-> c[2], o |-> o]) :
                       c \in { <<FaidxCmd, "FASTA indexing">>,
                               <<TabixCmd, "VCF indexing">> },
                       o \in [ ok : BOOLEAN,
                               stdout : TextsUpTo({"o1", "o2"}, CallMaxText),
                               stderr : TextsUpTo({"e1", "e2"}, CallMaxText) ] }
    /\ callResult = NoValue
    /\ pc = "CommandCall"

SpecRunCommand == InitRunCommand /\ [][RunCommandCall]_vars

\* pipeline.count_vcf_variants(vcf_path)
CountCall ==
    /\ pc = "CountCall"
    /\ LET r == count_vcf_variants(callArg[1])
       IN  /\ raised' = r.raised
           /\ callResult' = IF r.raised = NoError THEN Val(r.count) ELSE NoValue
           /\ spawned' = spawned \o r.spawned
    /\ pc' = "CountDone"
    /\ UNCHANGED <<Inputs, fai, gz, tbi, out, atStart, runs, logged, prior,
                   returned, verdict, emitted, toolsPresent, compressedVcf,
                   doneRuns, statsFile, stats, callArg>>

InitCount ==
    /\ fastaContent = <<>>
    /\ out = Absent
    /\ Fresh
    /\ statsFile = <<>>
    /\ callArg \in { Val([ok |-> ok, stdout |-> t]) :
                       ok \in BOOLEAN,
                       t \in TextsUpTo({"v", " ", "\n"}, CountMaxChars) }
    /\ callResult = NoValue
    /\ pc = "CountCall"

SpecCount == InitCount /\ [][CountCall]_vars

----------------------------------------------------------------------------
(* Properties: Sequence Statistics Engine and Validator *)

\* a header line: its first character that is not whitespace is ">"
IsHeaderLine(l) ==
    \E i \in 1..Len(l) : l[i] = ">" /\ \A j \in 1..(i - 1) : l[j] = " "

\* a residue line: residues only, whitespace allowed at the two ends
IsResidueLine(l) ==
    /\ \A i \in 1..Len(l) : l[i] \in {"A", " "}
    /\ \A i, j, k \in 1..Len(l) : i < j /\ j < k /\ l[i] = "A" /\ l[k] = "A"
                                   => l[j] = "A"

\* every record is one header line followed by zero or more residue lines
WellFormed(file) ==
    /\ file # <<>> => IsHeaderLine(file[1])
    /\ \A i \in 1..Len(file) : IsHeaderLine(file[i]) \/ IsResidueLine(file[i])

HeaderCount(file) == Cardinality({ i \in 1..Len(file) : IsHeaderLine(file[i]) })

\* the residues of the file: the positions <<line, column>> holding one
ResidueCount(file) ==
    Cardinality(UNION { { <<i, j>> : j \in { k \in 1..Len(file[i]) : file[i][k] = "A" } } :
                        i \in { n \in 1..Len(file) : ~IsHeaderLine(file[n]) } })

\* C10: for every well-formed sequence file get_file_stats returns the
\* number of header lines as num_sequences and the sum of the residue
\* lengths of all records as total_length, the last record and records
\* without residues included.
C10_StatsCountsAndLength ==
    (pc = "StatsDone" /\ WellFormed(statsFile))
        => /\ stats # NoValue
           /\ stats[1].num_sequences = HeaderCount(statsFile)
           /\ stats[1].total_length = ResidueCount(statsFile)

\* residue lengths [2, 0, 1]: three records, the middle one empty
C10_Witness ==
    /\ pc = "StatsDone"
    /\ statsFile = << <<">">>, <<"A", "A">>, <<">">>, <<">">>, <<"A">> >>
    /\ stats[1].num_sequences = 3
    /\ stats[1].total_length = 3

\* the outcome of the three rules, read off the two files
Rule1 == HeaderCount(fastaContent) = HeaderCount(out.lines)
Rule2 == fastaContent # out.lines
Rule3 == out.exists /\ out.lines # <<>>

\* the report holds the entry of a rule with the given outcome
Reported(rule, passed, failText) ==
    \E i \in 1..Len(logged) :
        /\ logged[i].kind = rule
        /\ logged[i].text = (IF passed THEN <<"ok">> ELSE <<failText>>)

C8_MissingOutputStillValidated ==
    (pc = "ValidateDone" /\ ~Rule3)
        => /\ raised = NoError
           /\ verdict = Val(FALSE)
           /\ \E i \in 1..Len(logged) : logged[i].kind = "check1"
           /\ \E i \in 1..Len(logged) : logged[i].kind = "check2"
           /\ Reported("check3", FALSE, "ERROR")

----------------------------------------------------------------------------
(* Properties: Pipeline Controller *)

\* the positions of the controller inside run(), in the order of the code
StageOrder ==
    << "Constructed", "Start", "DependencyCheck", "ReferenceIndexed",
       "VariantIndexed", "VariantsCounted", "ConsensusGenerated",
       "Validated", "Done" >>

\* C1: within one run the stages are entered in the fixed order only, each
\* after the one before it completed without error; an error in a stage
\* moves the run to Failed, and nothing is entered from Failed or Done.
C1_StagesInOrder ==
    [][ (runs' = runs /\ pc' # pc)
            => \/ /\ raised' = NoError
                  /\ \E i \in 1..(Len(StageOrder) - 1) :
                        pc = StageOrder[i] /\ pc' = StageOrder[i + 1]
               \/ /\ raised' # NoError
                  /\ pc' = "Failed"
                  /\ \E i \in 2..(Len(StageOrder) - 2) : pc = StageOrder[i] ]_vars

\* a run that failed in the middle, in variant indexing
C1_Witness ==
    /\ pc = "Failed"
    /\ raised.cmd = TabixCmd
    /\ FaidxCmd \in { spawned[i] : i \in 1..Len(spawned) }

\* C9: a false verdict of the validator does not fail the run: the run
\* goes on to Done, raises nothing, logs no pipeline-failed block and
\* returns the validator's verdict.
C9_ValidationFailureIsReported ==
    [][ /\ (pc = "ConsensusGenerated" /\ verdict' = Val(FALSE))
              => (pc' = "Validated" /\ raised' = NoError)
        /\ pc = "Validated" => pc' = "Done"
        /\ pc' = "Done"
              => /\ verdict' # NoValue
                 /\ returned' = verdict'
                 /\ raised' = NoError
                 /\ \A i \in 1..Len(logged') :
                        logged'[i].kind # "ERROR: Pipeline failed!" ]_vars

C9_Witness ==
    /\ pc = "Done"
    /\ verdict = Val(FALSE)
    /\ returned = Val(FALSE)
    /\ raised = NoError

----------------------------------------------------------------------------
(* Properties: Artifact Indexer, dependency check, error handling *)

Cmds(seq) == { seq[i] : i \in 1..Len(seq) }
Count(cmd, seq) == Cardinality({ i \in 1..Len(seq) : seq[i] = cmd })
Kinds(seq) == { seq[i].kind : i \in 1..Len(seq) }

\* the commands of the stages after the dependency check
LaterStageCmds == { FaidxCmd, BgzipCmd, TabixCmd, ViewCmd, ConsensusCmd }

\* C2: a run never skips the compression of a variant file whose
\* compressed artifact was not completely produced: whenever a run logs
\* that the compressed file already exists, that file is a complete one.
C2_NoSkipOfPartialArtifact ==
    "Compressed VCF already exists" \in Kinds(logged) => gz = "complete"

\* C3: a call of index_fasta that finds no index spawns the indexing command
\* once and, when it succeeds, leaves the index; a call that finds the
\* index spawns nothing, logs the skip and nothing else, and leaves the
\* index as it is.
C3_IndexFastaIdempotent ==
    [][ (pc = "DependencyCheck" /\ pc' # pc)
            => IF fai = "absent"
               THEN /\ spawned' = Append(spawned, FaidxCmd)
                    /\ raised' = NoError => fai' = "complete"
               ELSE /\ spawned' = spawned
                    /\ fai' = fai
                    /\ logged' = Append(logged, L("FASTA index already exists", <<>>))
                    /\ pc' = "ReferenceIndexed" ]_vars

\* two calls in a row: the first pipeline indexed, the second skipped
C3_Witness ==
    /\ runs = 2
    /\ pc = "ReferenceIndexed"
    /\ atStart[1] = "complete"
    /\ Count(FaidxCmd, prior) = 1
    /\ Count(FaidxCmd, spawned) = 0
    /\ fai = "complete"
    /\ logged[Len(logged)].kind = "FASTA index already exists"

AllTools == { required_tools[i] : i \in 1..Len(required_tools) }

\* the absent tools, in the order of required_tools
AbsentTools ==
    SelectSeq(required_tools, LAMBDA t : t \notin toolsPresent[1])

\* C4: when some required tool is absent, all four tools are probed, one
\* error naming every absent tool is raised, the run fails and no command
\* of a later stage is spawned.
C4_MissingDependencyNamesAll ==
    (toolsPresent # NoValue /\ toolsPresent[1] # AllTools)
        => /\ pc = "Failed"
           /\ raised.type = "RuntimeError"
           /\ raised.text = <<"Missing required tools">> \o AbsentTools
           /\ spawned = [ i \in 1..Len(required_tools) |-> ProbeCmd(required_tools[i]) ]
           /\ Cmds(spawned) \cap LaterStageCmds = {}
           /\ Count("Exception", [ i \in 1..Len(logged) |-> logged[i].kind ]) = 1

\* two tools absent
C4_Witness ==
    /\ toolsPresent = Val({"bcftools", "bgzip"})
    /\ pc = "Failed"
    /\ raised.text = <<"Missing required tools", "samtools", "tabix">>

\* the run raised the missing-tools error
MissingDependencyRaised ==
    \E i \in 1..Len(logged) :
        /\ logged[i].kind = "Exception"
        /\ logged[i].text # <<>>
        /\ logged[i].text[1] = "Missing required tools"

\* C5 as stated: when the missing-input or the missing-tools error is
\* raised, the pipeline has created or written no file, the log included,
\* and no stage has run.
C5_NoSideEffectAtAll ==
    (pc = "Rejected" \/ raised.type = "RuntimeError")
        => /\ logged = <<>>
           /\ Artifacts = atStart
           /\ Cmds(spawned) \cap LaterStageCmds = {}

\* C5 amended: the missing-input error is raised with nothing logged,
\* nothing spawned and no file touched; the missing-tools error is raised
\* after log entries were written and the four probes were made, with no
\* other file created or written and no later stage run.
C5_NoSideEffectButLog ==
    /\ pc = "Rejected"
          => /\ raised.type = "FileNotFoundError"
             /\ logged = <<>>
             /\ spawned = <<>>
             /\ Artifacts = atStart
    /\ MissingDependencyRaised
          => /\ pc = "Failed"
             /\ Artifacts = atStart
             /\ Cmds(spawned) \cap LaterStageCmds = {}
             /\ emitted = NoValue /\ verdict = NoValue /\ returned = NoValue

C5_Witness ==
    /\ MissingDependencyRaised
    /\ raised.type = "RuntimeError"
    /\ logged # <<>>
    /\ atStart[1] = "absent" /\ fai = "absent"

\* C6: when the variant-application command exits non-zero the run fails
\* with that error, returns no verdict, and the log holds the stderr text
\* of the failed process.
C6_ApplyFailureLogsStderr ==
    raised.cmd = ConsensusCmd
        => /\ pc = "Failed"
           /\ raised.type = "CalledProcessError"
           /\ returned = NoValue
           /\ verdict = NoValue
           /\ \E i \in 1..Len(logged) : logged[i].text = raised.stderr

----------------------------------------------------------------------------
(* Properties: files, reuse of artifacts, retries *)

\* C11: the pipeline never writes to, truncates or deletes the file at the
\* variant path, whatever the three paths are: when the output path names
\* the variant file, that file is still what it was when the pipeline was
\* constructed.
C11_VariantFileUntouched ==
    outIsVcf => out = atStart[4]

\* C12: every error surfaced to the caller has its entry in the log.
C12_EveryFailureLogged ==
    raised # NoError
        => \E i \in 1..Len(logged) :
              logged[i].kind = "Exception" /\ logged[i].text = raised.text

\* the commands spawned by the step being taken
NewlySpawned == SubSeq(spawned', Len(spawned) + 1, Len(spawned'))

\* C13: when compress_and_index_vcf returns, it returns the path of the
\* compressed variant file (the input itself if it ends in '.gz', else the
\* '.gz' sibling), that file and its index exist, the index was made if it
\* was not there on whichever branch, and the indexing command is only
\* spawned once the compressed file exists.
C13_VariantIndexEnsured ==
    [][ (pc = "ReferenceIndexed" /\ pc' # pc)
            => /\ TabixCmd \in Cmds(NewlySpawned)
                   => /\ vcfGz \/ gz' # "absent"
                      /\ NewlySpawned[Len(NewlySpawned)] = TabixCmd
                      /\ gz = "absent" /\ ~vcfGz => NewlySpawned = <<BgzipCmd, TabixCmd>>
               /\ pc' = "VariantIndexed"
                   => /\ compressedVcf' = Val(IF vcfGz THEN "vcf_path" ELSE "vcf_path.gz")
                      /\ vcfGz \/ gz' # "absent"
                      /\ tbi' = "complete"
                      /\ tbi = "absent" => TabixCmd \in Cmds(NewlySpawned) ]_vars

\* the branch where the compressed sibling was already there
C13_Witness ==
    /\ pc = "VariantIndexed"
    /\ ~vcfGz
    /\ atStart[2] = "complete" /\ atStart[3] = "absent"
    /\ TabixCmd \in Cmds(spawned) /\ BgzipCmd \notin Cmds(spawned)
    /\ tbi = "complete"
    /\ compressedVcf = Val("vcf_path.gz")

\* the pipeline at hand was constructed after a run that reached Done
LaterRun == doneRuns >= 2 \/ (doneRuns >= 1 /\ pc # "Done")

\* C14 as stated: a run after a run that reached Done spawns no process
\* for an artifact that is already there, the consensus output included.
C14_ReusesEveryArtifact ==
    LaterRun
        => Cmds(spawned) \cap {FaidxCmd, BgzipCmd, TabixCmd, ConsensusCmd} = {}

\* C14 amended: a run after a run that reached Done finds the reference
\* index, the compressed variant file and the variant index and spawns no
\* indexing or compression command; the consensus output is made again.
C14_ReusesIndexArtifacts ==
    LaterRun
        => /\ Cmds(spawned) \cap {FaidxCmd, BgzipCmd, TabixCmd} = {}
           /\ fai = "complete" /\ tbi = "complete" /\ (vcfGz \/ gz # "absent")
           /\ <<fai, gz, tbi>> = <<atStart[1], atStart[2], atStart[3]>>
           /\ pc \in {"ConsensusGenerated", "Validated", "Done"}
                 => ConsensusCmd \in Cmds(spawned)

C14_Witness ==
    /\ LaterRun
    /\ pc = "Done"
    /\ ~vcfGz
    /\ BgzipCmd \in Cmds(prior)
    /\ spawned = << ProbeCmd("bcftools"), ProbeCmd("samtools"), ProbeCmd("bgzip"),
                    ProbeCmd("tabix"), ViewCmd, ConsensusCmd >>

\* C15: within a run every stage's command is spawned at most once, and
\* once a command has exited non-zero the run has failed with that command
\* the last one spawned.
C15_NoRetryAbortAtOnce ==
    /\ \A c \in LaterStageCmds : Count(c, spawned) <= 1
    /\ raised.type = "CalledProcessError"
          => /\ pc = "Failed"
             /\ spawned # <<>>
             /\ spawned[Len(spawned)] = raised.cmd

C15_Witness ==
    /\ pc = "Failed"
    /\ raised.cmd = FaidxCmd
    /\ Count(FaidxCmd, spawned) = 1
    /\ spawned[Len(spawned)] = FaidxCmd

\* C16: once the variant-application stage has completed, the output file
\* holds exactly what the collaborator emitted in this run, whatever it
\* held before.
C16_OutputOverwritten ==
    pc \in {"ConsensusGenerated", "Validated", "Done"}
        => /\ emitted # NoValue
           /\ out = File(emitted[1])

\* a second run over the non-empty output of the first
C16_Witness ==
    /\ pc = "ConsensusGenerated"
    /\ ConsensusCmd \in Cmds(prior)
    /\ atStart[4].exists /\ atStart[4].lines # <<>>
    /\ emitted # NoValue /\ emitted[1] # <<>>
    /\ out = File(emitted[1])

\* C17: when a command run through run_command exits with status zero and
\* left text on stderr, that text is in the log and the captured stdout is
\* what the caller gets.
C17_SuccessStderrLogged ==
    (pc = "CommandDone" /\ callArg[1].o.ok /\ callArg[1].o.stderr # <<>>)
        => /\ \E i \in 1..Len(logged) : logged[i].text = callArg[1].o.stderr
           /\ callResult = Val(callArg[1].o.stdout)

\* the lines of a text that hold something other than whitespace: the
\* positions of the first such character of a line
NonEmptyLines(text) ==
    Cardinality({ i \in 1..Len(text) :
                    /\ ~IsSpace(text[i])
                    /\ \A j \in 1..(i - 1) :
                          ~IsSpace(text[j]) => \E k \in j..(i - 1) : text[k] = "\n" })

\* C18: count_vcf_variants returns the number of non-empty lines of the
\* listing, blank lines between or around the records not counted, and
\* fails only when the listing process fails.
C18_CountsNonEmptyLines ==
    pc = "CountDone"
        => IF callArg[1].ok
           THEN raised = NoError /\ callResult = Val(NonEmptyLines(callArg[1].stdout))
           ELSE raised.type = "CalledProcessError"

\* C19: as long as a run has not entered the consensus stage, whatever was
\* at the output path when the pipeline was constructed is still there; a
\* run that fails before that stage leaves it so.
C19_OutputUntouchedBeforeConsensus ==
    ConsensusCmd \notin Cmds(spawned) => out = atStart[4]

\* a run failing in variant counting over the output of a finished run
C19_Witness ==
    /\ pc = "Failed"
    /\ raised.cmd = ViewCmd
    /\ doneRuns = 1
    /\ out.exists /\ out.lines # <<>>
    /\ out = atStart[4]

====
